---- MODULE Spec2Model ----
(***************************************************************************)
(* Model of scraper/build_aktuelt_combined.py: the two source normalizers  *)
(* (load_kommune_items, load_nf_items), the date functions they use, and   *)
(* the merge run (build_combined, main) that sorts the concatenated items  *)
(* and overwrites data/aktuelt_combined.json.                              *)
(*                                                                         *)
(* Python values are records [t, v]: t is the type ("none", "str", "int")  *)
(* and v the text of the value, so that values of different Python types   *)
(* can be compared.  Strings are TLA+ strings; SubSeq, Len and \o give     *)
(* slicing, length and concatenation.                                      *)
(***************************************************************************)
EXTENDS Integers, Sequences, FiniteSets, TLC

\* ------------------------------------------------------------------------
\* Bounds of the model
\* ------------------------------------------------------------------------

\* Largest number of raw items in the two input files together.
MaxItems == 2

\* Number of merge runs (executions of main) in one behaviour.
MaxRuns == 2

\* Anchors of the news list page of Fauske Naeringsforum.
MaxCards == 2

\* Shows in the answer of the culture API.
MaxShows == 3

\* ------------------------------------------------------------------------
\* Python values
\* ------------------------------------------------------------------------

None == [t |-> "none", v |-> ""]

Str(s) == [t |-> "str", v |-> s]

\* An integer, as the JSON number with decimal text s: the representative
\* of a field that is present but not a string.
Num(s) == [t |-> "int", v |-> s]

IsStr(x) == x.t = "str"

\* Python truth value: None, "" and 0 are false.
Truthy(x) ==
  CASE x.t = "none" -> FALSE
    [] x.t = "str"  -> x.v # ""
    [] x.t = "int"  -> x.v # "0"

\* Python's  a or b
Or(a, b) == IF Truthy(a) THEN a ELSE b

\* ------------------------------------------------------------------------
\* Strings
\* ------------------------------------------------------------------------

Digits == {"0", "1", "2", "3", "4", "5", "6", "7", "8", "9"}

Whitespace == {" ", "\t", "\n"}

CharAt(s, i) == SubSeq(s, i, i)

DigitVal(c) ==
  CASE c = "0" -> 0 [] c = "1" -> 1 [] c = "2" -> 2 [] c = "3" -> 3
    [] c = "4" -> 4 [] c = "5" -> 5 [] c = "6" -> 6 [] c = "7" -> 7
    [] c = "8" -> 8 [] c = "9" -> 9

DigitChar(n) ==
  CASE n = 0 -> "0" [] n = 1 -> "1" [] n = 2 -> "2" [] n = 3 -> "3"
    [] n = 4 -> "4" [] n = 5 -> "5" [] n = 6 -> "6" [] n = 7 -> "7"
    [] n = 8 -> "8" [] n = 9 -> "9"

AllDigits(s) == \A i \in 1..Len(s) : CharAt(s, i) \in Digits

RECURSIVE ToInt(_)
ToInt(s) ==
  IF Len(s) = 0 THEN 0
  ELSE 10 * ToInt(SubSeq(s, 1, Len(s) - 1)) + DigitVal(CharAt(s, Len(s)))

\* n written with at least w digits, zero padded (format "%04d", "%02d").
RECURSIVE Pad(_, _)
Pad(n, w) ==
  IF w <= 1 /\ n < 10 THEN DigitChar(n)
  ELSE Pad(n \div 10, w - 1) \o DigitChar(n % 10)

\* str.strip()
RECURSIVE LStrip(_)
LStrip(s) ==
  IF Len(s) > 0 /\ CharAt(s, 1) \in Whitespace
  THEN LStrip(SubSeq(s, 2, Len(s))) ELSE s

RECURSIVE RStrip(_)
RStrip(s) ==
  IF Len(s) > 0 /\ CharAt(s, Len(s)) \in Whitespace
  THEN RStrip(SubSeq(s, 1, Len(s) - 1)) ELSE s

Strip(s) == LStrip(RStrip(s))

\* str.rstrip("/")
RECURSIVE RStripSlash(_)
RStripSlash(s) ==
  IF Len(s) > 0 /\ CharAt(s, Len(s)) = "/"
  THEN RStripSlash(SubSeq(s, 1, Len(s) - 1)) ELSE s

\* str.rsplit("/", 1)[-1]: the text after the last "/", the whole string
\* when it has none.
LastSegment(s) ==
  LET slashes == {i \in 1..Len(s) : CharAt(s, i) = "/"}
  IN  IF slashes = {} THEN s
      ELSE LET last == CHOOSE i \in slashes : \A j \in slashes : j <= i
           IN  SubSeq(s, last + 1, Len(s))

\* str.split(c): the parts of s between the occurrences of the character c.
RECURSIVE SplitOn(_, _)
SplitOn(s, c) ==
  LET hits == {i \in 1..Len(s) : CharAt(s, i) = c}
  IN  IF hits = {} THEN <<s>>
      ELSE LET first == CHOOSE i \in hits : \A j \in hits : i <= j
           IN  <<SubSeq(s, 1, first - 1)>>
                 \o SplitOn(SubSeq(s, first + 1, Len(s)), c)

\* ------------------------------------------------------------------------
\* Dates (datetime.datetime)
\* ------------------------------------------------------------------------

\* A datetime: the calendar fields, and for an aware datetime (tzinfo set)
\* its UTC offset in minutes.
DateTime(y, m, d, hh, mi, ss, aware, off) ==
  [y |-> y, m |-> m, d |-> d, hh |-> hh, mi |-> mi, ss |-> ss,
   aware |-> aware, off |-> off]

\* datetime.min
DatetimeMin == DateTime(1, 1, 1, 0, 0, 0, FALSE, 0)

IsLeap(y) == y % 4 = 0 /\ (y % 100 # 0 \/ y % 400 = 0)

DaysInMonth(y, m) ==
  CASE m \in {1, 3, 5, 7, 8, 10, 12} -> 31
    [] m \in {4, 6, 9, 11} -> 30
    [] m = 2 -> IF IsLeap(y) THEN 29 ELSE 28

\* The datetime constructor accepts the date: MINYEAR <= y <= MAXYEAR.
ValidDate(y, m, d) ==
  /\ y \in 1..9999
  /\ m \in 1..12
  /\ d >= 1 /\ d <= DaysInMonth(y, m)

DaysBeforeYear(y) ==
  (y - 1) * 365 + (y - 1) \div 4 - (y - 1) \div 100 + (y - 1) \div 400

RECURSIVE DaysBeforeMonth(_, _)
DaysBeforeMonth(y, m) ==
  IF m = 1 THEN 0 ELSE DaysBeforeMonth(y, m - 1) + DaysInMonth(y, m - 1)

\* date.toordinal()
Ordinal(y, m, d) == DaysBeforeYear(y) + DaysBeforeMonth(y, m) + d

\* The point in time a datetime denotes, as <<day, second of the day>>; for
\* an aware datetime the UTC time, as datetime comparison uses it.
Instant(dt) ==
  LET minute == dt.hh * 60 + dt.mi - dt.off
  IN  <<Ordinal(dt.y, dt.m, dt.d) + minute \div 1440,
        (minute % 1440) * 60 + dt.ss>>

\* a < b and a = b on datetimes of the same kind (both naive or both aware).
Earlier(a, b) ==
  LET x == Instant(a)
      y == Instant(b)
  IN  x[1] < y[1] \/ (x[1] = y[1] /\ x[2] < y[2])

SameInstant(a, b) == Instant(a) = Instant(b)

\* date.isoformat()
IsoFormat(dt) == Pad(dt.y, 4) \o "-" \o Pad(dt.m, 2) \o "-" \o Pad(dt.d, 2)

\* The result of a parse: ok is FALSE when the parse raises ValueError.
Parsed(dt) == [ok |-> TRUE, dt |-> dt]

ParseError == [ok |-> FALSE, dt |-> DatetimeMin]

\* strptime directive %d: 3[0-1]|[1-2]\d|0[1-9]|[1-9]| [1-9]
DayText(p) ==
  \/ Len(p) \in {1, 2} /\ AllDigits(p) /\ ToInt(p) \in 1..31
  \/ Len(p) = 2 /\ CharAt(p, 1) = " " /\ CharAt(p, 2) \in Digits \ {"0"}

\* strptime directive %m: 1[0-2]|0[1-9]|[1-9]
MonthText(p) == Len(p) \in {1, 2} /\ AllDigits(p) /\ ToInt(p) \in 1..12

\* strptime directive %Y: \d\d\d\d
YearText(p) == Len(p) = 4 /\ AllDigits(p)

\* The date of three texts already matched by the directives.
DateOfTexts(yt, mt, dt) ==
  LET y == ToInt(yt)
      m == ToInt(mt)
      d == ToInt(LStrip(dt))
  IN  IF ValidDate(y, m, d)
      THEN Parsed(DateTime(y, m, d, 0, 0, 0, FALSE, 0))
      ELSE ParseError

\* strptime that reads the text as month.day.year.
StrptimeMDY(s) ==
  LET p == SplitOn(s, ".")
  IN  IF Len(p) = 3 /\ MonthText(p[1]) /\ DayText(p[2]) /\ YearText(p[3])
      THEN DateOfTexts(p[3], p[1], p[2])
      ELSE ParseError

\* datetime.strptime(s, "%d.%m.%Y")
StrptimeDMY(s) ==
  LET p == SplitOn(s, ".")
  IN  IF Len(p) = 3 /\ DayText(p[1]) /\ MonthText(p[2]) /\ YearText(p[3])
      THEN DateOfTexts(p[3], p[2], p[1])
      ELSE ParseError

\* datetime.strptime(s, "%Y-%m-%d")
StrptimeYMD(s) ==
  LET p == SplitOn(s, "-")
  IN  IF Len(p) = 3 /\ YearText(p[1]) /\ MonthText(p[2]) /\ DayText(p[3])
      THEN DateOfTexts(p[1], p[2], p[3])
      ELSE ParseError

TwoDigits(p, max) == Len(p) = 2 /\ AllDigits(p) /\ ToInt(p) <= max

\* The time of day of an ISO string: HH, HH:MM or HH:MM:SS.
IsoClock(p) ==
  LET f == SplitOn(p, ":")
  IN  /\ Len(f) \in 1..3
      /\ TwoDigits(f[1], 23)
      /\ \A i \in 2..Len(f) : TwoDigits(f[i], 59)

\* The UTC offset of an ISO string, after its sign: HH:MM.
IsoOffset(p) ==
  LET f == SplitOn(p, ":")
  IN  Len(f) = 2 /\ TwoDigits(f[1], 23) /\ TwoDigits(f[2], 59)

\* datetime.fromisoformat(s) on the extended calendar format
\* YYYY-MM-DD[*HH[:MM[:SS]][+HH:MM]], * any one character.  (The basic,
\* week and fractional-second forms are not modelled: they raise here.)
FromIsoFormat(s) ==
  IF Len(s) < 10 THEN ParseError
  ELSE
    LET yt == SubSeq(s, 1, 4)
        mt == SubSeq(s, 6, 7)
        dt == SubSeq(s, 9, 10)
        dateOk == /\ AllDigits(yt) /\ AllDigits(mt) /\ AllDigits(dt)
                  /\ CharAt(s, 5) = "-" /\ CharAt(s, 8) = "-"
                  /\ ValidDate(ToInt(yt), ToInt(mt), ToInt(dt))
        rest == SubSeq(s, 12, Len(s))
        signs == {i \in 1..Len(rest) : CharAt(rest, i) \in {"+", "-"}}
        cut == IF signs = {} THEN Len(rest) + 1
               ELSE CHOOSE i \in signs : \A j \in signs : i <= j
        clock == SubSeq(rest, 1, cut - 1)
        offset == SubSeq(rest, cut + 1, Len(rest))
        f == SplitOn(clock, ":")
        o == SplitOn(offset, ":")
        sign == IF signs # {} /\ CharAt(rest, cut) = "-" THEN -1 ELSE 1
    IN  IF ~dateOk THEN ParseError
        ELSE IF Len(s) = 10
        THEN Parsed(DateTime(ToInt(yt), ToInt(mt), ToInt(dt), 0, 0, 0, FALSE, 0))
        ELSE IF Len(s) = 11 \/ ~IsoClock(clock) THEN ParseError
        ELSE IF signs # {} /\ ~IsoOffset(offset) THEN ParseError
        ELSE Parsed(DateTime(ToInt(yt), ToInt(mt), ToInt(dt),
                             ToInt(f[1]),
                             IF Len(f) >= 2 THEN ToInt(f[2]) ELSE 0,
                             IF Len(f) >= 3 THEN ToInt(f[3]) ELSE 0,
                             signs # {},
                             IF signs # {}
                             THEN sign * (ToInt(o[1]) * 60 + ToInt(o[2]))
                             ELSE 0))

\* A raised exception, where a function returns a value or raises.
Raise(e) == [t |-> "raise", v |-> e]

Raised(x) == x.t = "raise"

\* parse_date_fauskenf(date_str): the ISO date of a dd.mm.yyyy or ISO text,
\* None when neither parse succeeds.  A true value that is not a string has
\* no strip(): the AttributeError is raised in the try block and is not a
\* ValueError, so it leaves the function.
parse_date_fauskenf(date_str) ==
  IF ~Truthy(date_str) THEN None
  ELSE IF ~IsStr(date_str) THEN Raise("AttributeError")
  ELSE
    LET s == Strip(date_str.v)
        dmy == StrptimeDMY(s)
        iso == FromIsoFormat(s)
    IN  IF dmy.ok THEN Str(IsoFormat(dmy.dt))
        ELSE IF iso.ok THEN Str(IsoFormat(iso.dt))
        ELSE None

\* SortKeyAttempts without the attempt on the first 10 characters.
SortKeyAttemptsNoPrefix(s) ==
  LET iso == FromIsoFormat(s)
      dmy == StrptimeDMY(Strip(s))
  IN  IF iso.ok THEN iso
      ELSE dmy

\* The three attempts of parse_date_sortkey on a string, in order: the whole
\* string as ISO 8601, its first 10 characters as %Y-%m-%d, the stripped
\* string as %d.%m.%Y.
SortKeyAttempts(s) ==
  LET iso == FromIsoFormat(s)
      ymd == StrptimeYMD(SubSeq(s, 1, IF Len(s) < 10 THEN Len(s) ELSE 10))
      dmy == StrptimeDMY(Strip(s))
  IN  IF iso.ok THEN iso
      ELSE IF ymd.ok THEN ymd
      ELSE dmy

\* parse_date_sortkey(date_str): every exception is caught, so a value that
\* is not a string falls through the three attempts to datetime.min.
parse_date_sortkey(date_str) ==
  IF ~Truthy(date_str) THEN DatetimeMin
  ELSE IF ~IsStr(date_str) THEN DatetimeMin
  ELSE
    LET attempt == SortKeyAttempts(date_str.v)
    IN  IF attempt.ok THEN attempt.dt ELSE DatetimeMin

\* ------------------------------------------------------------------------
\* scrape.py: the date of the kommune scraper
\* ------------------------------------------------------------------------

\* NORWEGIAN_MONTHS: the month names, at the index of their number.
NORWEGIAN_MONTHS ==
  <<"januar", "februar", "mars", "april", "mai", "juni", "juli", "august",
    "september", "oktober", "november", "desember">>

\* NORWEGIAN_MONTHS.get(name): the number of the month, 0 for None.
MonthNumber(name) ==
  IF \E i \in 1..12 : NORWEGIAN_MONTHS[i] = name
  THEN CHOOSE i \in 1..12 : NORWEGIAN_MONTHS[i] = name
  ELSE 0

LowerChar(c) ==
  CASE c = "A" -> "a" [] c = "B" -> "b" [] c = "C" -> "c" [] c = "D" -> "d"
    [] c = "E" -> "e" [] c = "F" -> "f" [] c = "G" -> "g" [] c = "H" -> "h"
    [] c = "I" -> "i" [] c = "J" -> "j" [] c = "K" -> "k" [] c = "L" -> "l"
    [] c = "M" -> "m" [] c = "N" -> "n" [] c = "O" -> "o" [] c = "P" -> "p"
    [] c = "Q" -> "q" [] c = "R" -> "r" [] c = "S" -> "s" [] c = "T" -> "t"
    [] c = "U" -> "u" [] c = "V" -> "v" [] c = "W" -> "w" [] c = "X" -> "x"
    [] c = "Y" -> "y" [] c = "Z" -> "z" [] OTHER -> c

\* str.lower(), on the letters A to Z.
RECURSIVE Lower(_)
Lower(s) ==
  IF Len(s) = 0 THEN ""
  ELSE LowerChar(CharAt(s, 1)) \o Lower(SubSeq(s, 2, Len(s)))

\* str.rstrip(".")
RECURSIVE RStripDot(_)
RStripDot(s) ==
  IF Len(s) > 0 /\ CharAt(s, Len(s)) = "."
  THEN RStripDot(SubSeq(s, 1, Len(s) - 1)) ELSE s

\* str.split(): the maximal runs of characters that are not whitespace.
RECURSIVE Tokens(_)
Tokens(s) ==
  LET t == LStrip(s)
      gaps == {i \in 1..Len(t) : CharAt(t, i) \in Whitespace}
      stop == IF gaps = {} THEN Len(t) + 1
              ELSE CHOOSE i \in gaps : \A j \in gaps : i <= j
  IN  IF Len(t) = 0 THEN <<>>
      ELSE <<SubSeq(t, 1, stop - 1)>> \o Tokens(SubSeq(t, stop, Len(t)))

\* int(s) accepts s: an optional sign and decimal digits.  (Digits grouped
\* by underscores and digits outside 0-9 are not modelled.)
IntText(s) ==
  LET digits == IF Len(s) > 0 /\ CharAt(s, 1) \in {"+", "-"}
                THEN SubSeq(s, 2, Len(s)) ELSE s
  IN  Len(digits) > 0 /\ AllDigits(digits)

\* int(s), for a text that IntText accepts.
IntOf(s) ==
  IF CharAt(s, 1) = "-" THEN 0 - ToInt(SubSeq(s, 2, Len(s)))
  ELSE IF CharAt(s, 1) = "+" THEN ToInt(SubSeq(s, 2, Len(s)))
  ELSE ToInt(s)

\* ParseDateParts that reads the month name as it is written.
ParseDatePartsCaseSensitive(day_part, month_part, year_part) ==
  IF ~IntText(day_part) \/ ~IntText(year_part) THEN Raise("ValueError")
  ELSE IF MonthNumber(month_part) = 0 THEN None
  ELSE IF ~ValidDate(IntOf(year_part), MonthNumber(month_part),
                     IntOf(day_part))
  THEN Raise("ValueError")
  ELSE Str(IsoFormat(DateTime(IntOf(year_part), MonthNumber(month_part),
                              IntOf(day_part), 0, 0, 0, FALSE, 0)))

\* The try block of parse_date on the three parts: the ISO date, None for a
\* month that is not in the table, or the ValueError of int() or datetime().
ParseDateParts(day_part, month_part, year_part) ==
  IF ~IntText(day_part) \/ ~IntText(year_part) THEN Raise("ValueError")
  ELSE IF MonthNumber(Lower(month_part)) = 0 THEN None
  ELSE IF ~ValidDate(IntOf(year_part), MonthNumber(Lower(month_part)),
                     IntOf(day_part))
  THEN Raise("ValueError")
  ELSE Str(IsoFormat(DateTime(IntOf(year_part),
                              MonthNumber(Lower(month_part)),
                              IntOf(day_part), 0, 0, 0, FALSE, 0)))

\* parse_date without its  except Exception: return None.
parse_date_uncaught(date_str) ==
  IF ~Truthy(date_str) THEN None
  ELSE IF ~IsStr(date_str) THEN Raise("AttributeError")
  ELSE
    LET parts == Tokens(Strip(date_str.v))
    IN  IF Len(parts) < 3 THEN None
        ELSE ParseDateParts(RStripDot(parts[1]), parts[2], parts[3])

\* scrape.parse_date(date_str): the ISO date of "13. november 2025 ...",
\* else None.  strip() is called outside the try block.
parse_date(date_str) ==
  IF ~Truthy(date_str) THEN None
  ELSE IF ~IsStr(date_str) THEN Raise("AttributeError")
  ELSE
    LET parts == Tokens(Strip(date_str.v))
        parsed == ParseDateParts(RStripDot(parts[1]), parts[2], parts[3])
    IN  IF Len(parts) < 3 THEN None
        ELSE IF Raised(parsed) THEN None
        ELSE parsed

\* ------------------------------------------------------------------------
\* Raw items and input files
\* ------------------------------------------------------------------------

\* A raw item is a JSON object; the normalizers read it with item.get only,
\* so an absent key and a null value are the same None.
EmptyRaw ==
  [id |-> None, title |-> None, url |-> None, imageUrl |-> None,
   image |-> None, published |-> None, publishedText |-> None,
   date |-> None, ingress |-> None, body |-> None, articleBody |-> None,
   category |-> None]

\* Raw items of data/nyheter.json.
KommuneRaw ==
  { [EmptyRaw EXCEPT !.title = Str("X"), !.url = Str("https://s/a/b"),
                     !.published = Str("2025-11-13")],
    [EmptyRaw EXCEPT !.title = Str("X2"), !.url = Str("https://s/c/b"),
                     !.published = Str("2025-11-17"),
                     !.publishedText = Str("17. november 2025")],
    [EmptyRaw EXCEPT !.title = Str("Z"),
                     !.publishedText = Str("ukjent dato")],
    [EmptyRaw EXCEPT !.title = Str("D"), !.url = Str("https://s/a/d/"),
                     !.published = Str("ukjent")],
    [EmptyRaw EXCEPT !.title = Str("E"), !.url = Str("https://s/a/e"),
                     !.published = Str("2025-11-13T10:00:00+01:00")],
    [EmptyRaw EXCEPT !.title = Str("gammel"),
                     !.published = Str("0001-01-01")],
    [EmptyRaw EXCEPT !.title = Str("T"), !.url = Num("5"),
                     !.published = Str("2025-11-13")],
    [EmptyRaw EXCEPT !.title = Num("7"), !.url = Str("https://s/a/f"),
                     !.published = Num("20251113")],
    [EmptyRaw EXCEPT !.title = Str("P"), !.published = Str("13.11.2025")],
    [EmptyRaw EXCEPT !.title = Str("K"),
                     !.published = Str("2025-11-17 kl. 18")],
    EmptyRaw }

\* Raw items of data/fauskenf_nyheter.json.
NfRaw ==
  { [EmptyRaw EXCEPT !.id = Str("b-1"), !.date = Str("17.11.2025"),
                     !.title = Str("Y")],
    [EmptyRaw EXCEPT !.id = Str("fauskenf-2025-11-13-sak"),
                     !.date = Str("13.11.2025"), !.title = Str("S"),
                     !.url = Str("https://nf/n/sak"),
                     !.ingress = Str("kort")],
    [EmptyRaw EXCEPT !.title = Str("U"), !.date = Str("ukjent")],
    [EmptyRaw EXCEPT !.id = Str("b-4"), !.date = Num("5")],
    [EmptyRaw EXCEPT !.url = Str("https://nf/n/iso"),
                     !.date = Str("2025-11-13T10:00:00+01:00")],
    [EmptyRaw EXCEPT !.id = Str("fauske_kommune-b"), !.title = Str("B"),
                     !.date = Str("1.2.2025")],
    [EmptyRaw EXCEPT !.id = Str("b-7"), !.date = Str("13.11.2025"),
                     !.articleBody = Str("lang tekst")],
    [EmptyRaw EXCEPT !.id = Num("9"), !.title = Str("N"),
                     !.date = Str("17.11.2025")],
    EmptyRaw }

\* An input file: absent, present with text that is not JSON, or present
\* with the JSON document {"items": items}.
MissingFile == [exists |-> FALSE, wellformed |-> FALSE, items |-> <<>>]

MalformedFile == [exists |-> TRUE, wellformed |-> FALSE, items |-> <<>>]

JsonFile(items) == [exists |-> TRUE, wellformed |-> TRUE, items |-> items]

\* ------------------------------------------------------------------------
\* The normalizers
\* ------------------------------------------------------------------------

\* What a load function does: returns a list, or raises.
Returns(items) == [ok |-> TRUE, err |-> "", items |-> items]

Raises(e) == [ok |-> FALSE, err |-> e, items |-> <<>>]

\* The id of a kommune item: the last path segment of the url, else of the
\* title, else of "kommune-unknown".  rstrip is a str method: a true url or
\* title that is not a string raises AttributeError.
KommuneId(item) ==
  LET base_id == Or(Or(item.url, item.title), Str("kommune-unknown"))
  IN  IF ~IsStr(base_id) THEN Raise("AttributeError")
      ELSE Str("fauske_kommune-" \o LastSegment(RStripSlash(base_id.v)))

\* NormalizeKommune that fills in the publishedText of the raw item it keeps.
NormalizeKommuneFilling(item) ==
  [id            |-> KommuneId(item),
   source        |-> "fauske_kommune",
   sourceName    |-> "Fauske kommune",
   title         |-> item.title,
   url           |-> item.url,
   image         |-> Or(item.imageUrl, item.image),
   published     |-> item.published,
   publishedText |-> Or(item.publishedText, item.published),
   ingress       |-> item.ingress,
   body          |-> item.body,
   category      |-> item.category,
   raw           |-> [item EXCEPT
                        !.publishedText =
                           Or(item.publishedText, item.published)]]

\* One iteration of the loop of load_kommune_items.
NormalizeKommune(item) ==
  [id            |-> KommuneId(item),
   source        |-> "fauske_kommune",
   sourceName    |-> "Fauske kommune",
   title         |-> item.title,
   url           |-> item.url,
   image         |-> Or(item.imageUrl, item.image),
   published     |-> item.published,
   publishedText |-> Or(item.publishedText, item.published),
   ingress       |-> item.ingress,
   body          |-> item.body,
   category      |-> item.category,
   raw           |-> item]

\* The id of an NF item: its own id, else its url, else its title.
NfId(item) ==
  Or(Or(Or(item.id, item.url), item.title), Str("fauskenf-unknown"))

\* One iteration of the loop of load_nf_items.
NormalizeNf(item) ==
  [id            |-> NfId(item),
   source        |-> "fauskenf",
   sourceName    |-> "Fauske Næringsforum",
   title         |-> item.title,
   url           |-> item.url,
   image         |-> item.image,
   published     |-> parse_date_fauskenf(item.date),
   publishedText |-> item.date,
   ingress       |-> item.ingress,
   body          |-> None,
   category      |-> item.category,
   raw           |-> item]

\* The exception of the first value in the list that is a raised exception:
\* the loop ends at the first item that raises.
FirstRaised(values) ==
  LET bad == {i \in 1..Len(values) : Raised(values[i])}
      first == CHOOSE i \in bad : \A j \in bad : i <= j
  IN  values[first].v

\* load_kommune_items whose ids carry the position of the item in the list.
load_kommune_items_numbered(f) ==
  IF ~f.exists THEN Returns(<<>>)
  ELSE IF ~f.wellformed THEN Raises("JSONDecodeError")
  ELSE
    LET normalized == [i \in 1..Len(f.items) |-> NormalizeKommune(f.items[i])]
    IN  IF \E i \in 1..Len(normalized) : Raised(normalized[i].id)
        THEN Raises(FirstRaised([i \in 1..Len(normalized) |-> normalized[i].id]))
        ELSE Returns([i \in 1..Len(normalized) |->
                       [normalized[i] EXCEPT
                          !.id = Str(normalized[i].id.v \o "-" \o Pad(i, 1))]])

\* load_kommune_items() on the file f.
load_kommune_items(f) ==
  IF ~f.exists THEN Returns(<<>>)
  ELSE IF ~f.wellformed THEN Raises("JSONDecodeError")
  ELSE
    LET normalized == [i \in 1..Len(f.items) |-> NormalizeKommune(f.items[i])]
    IN  IF \E i \in 1..Len(normalized) : Raised(normalized[i].id)
        THEN Raises(FirstRaised([i \in 1..Len(normalized) |-> normalized[i].id]))
        ELSE Returns(normalized)

\* load_nf_items that takes a file that is not JSON for an empty document.
load_nf_items_lenient(f) ==
  IF ~f.exists \/ ~f.wellformed THEN Returns(<<>>)
  ELSE
    LET normalized == [i \in 1..Len(f.items) |-> NormalizeNf(f.items[i])]
    IN  IF \E i \in 1..Len(normalized) : Raised(normalized[i].published)
        THEN Raises(FirstRaised([i \in 1..Len(normalized) |->
                                  normalized[i].published]))
        ELSE Returns(normalized)

\* load_nf_items() on the file f.
load_nf_items(f) ==
  IF ~f.exists THEN Returns(<<>>)
  ELSE IF ~f.wellformed THEN Raises("JSONDecodeError")
  ELSE
    LET normalized == [i \in 1..Len(f.items) |-> NormalizeNf(f.items[i])]
    IN  IF \E i \in 1..Len(normalized) : Raised(normalized[i].published)
        THEN Raises(FirstRaised([i \in 1..Len(normalized) |->
                                  normalized[i].published]))
        ELSE Returns(normalized)

\* ------------------------------------------------------------------------
\* The sort of build_combined
\* ------------------------------------------------------------------------

\* key=lambda item: parse_date_sortkey(item.get("published"))
SortKey(item) == parse_date_sortkey(item.published)

\* Comparing an aware with a naive datetime raises TypeError; a sort of two
\* or more items of which some keys are aware and some naive has to compare
\* such a pair.
SortRaises(items) ==
  \E i, j \in 1..Len(items) : SortKey(items[i]).aware # SortKey(items[j]).aware

\* InsertDescending with the comparison turned round: an ascending sort.
InsertAscending(s, x) ==
  LET ahead == {i \in 1..Len(s) : ~Earlier(SortKey(x), SortKey(s[i]))}
      p == Cardinality(ahead)
  IN  SubSeq(s, 1, p) \o <<x>> \o SubSeq(s, p + 1, Len(s))

\* InsertDescending that puts x in front of the items with an equal key: a
\* descending sort that is not stable.
InsertDescendingUnstable(s, x) ==
  LET ahead == {i \in 1..Len(s) : Earlier(SortKey(x), SortKey(s[i]))}
      p == Cardinality(ahead)
  IN  SubSeq(s, 1, p) \o <<x>> \o SubSeq(s, p + 1, Len(s))

\* InsertDescending that leaves out an item whose id is in the list already.
InsertDescendingDistinct(s, x) ==
  LET ahead == {i \in 1..Len(s) : ~Earlier(SortKey(s[i]), SortKey(x))}
      p == Cardinality(ahead)
  IN  IF \E i \in 1..Len(s) : s[i].id = x.id THEN s
      ELSE SubSeq(s, 1, p) \o <<x>> \o SubSeq(s, p + 1, Len(s))

\* x inserted into s, sorted newest first, behind every item whose key is
\* not earlier than the key of x.
InsertDescending(s, x) ==
  LET ahead == {i \in 1..Len(s) : ~Earlier(SortKey(s[i]), SortKey(x))}
      p == Cardinality(ahead)
  IN  SubSeq(s, 1, p) \o <<x>> \o SubSeq(s, p + 1, Len(s))

\* list.sort(key=..., reverse=True): newest first, and stable (items with
\* equal keys keep the order they have in the list).
RECURSIVE SortDescending(_)
SortDescending(items) ==
  IF Len(items) = 0 THEN <<>>
  ELSE InsertDescending(SortDescending(SubSeq(items, 1, Len(items) - 1)),
                        items[Len(items)])

\* ------------------------------------------------------------------------
\* scrape_fauskenf_nyheter.py: the items of the news list page
\* ------------------------------------------------------------------------

BASE_URL == "https://www.fauskenf.no"

\* str.startswith(prefix)
StartsWith(s, prefix) ==
  Len(s) >= Len(prefix) /\ SubSeq(s, 1, Len(prefix)) = prefix

make_absolute_url(href) ==
  IF StartsWith(href, "http://") \/ StartsWith(href, "https://") THEN href
  ELSE IF StartsWith(href, "/") THEN BASE_URL \o href
  ELSE BASE_URL \o "/" \o href

\* An <a href=...> of the page: its text with single spaces (dd.mm.yyyy and
\* what follows, for a news card), the text of its header element and of its
\* first <p>, None for an element it does not have.
Anchor(href, text, header, p) ==
  [href |-> href, text |-> text, header |-> header, p |-> p]

\* date_pattern ^(\d{2}\.\d{2}\.\d{4})\s+(.*)$ matches the text.  The
\* digits are not checked to be a day of the calendar.
MatchesDatePattern(text) ==
  /\ Len(text) >= 11
  /\ AllDigits(SubSeq(text, 1, 2)) /\ CharAt(text, 3) = "."
  /\ AllDigits(SubSeq(text, 4, 5)) /\ CharAt(text, 6) = "."
  /\ AllDigits(SubSeq(text, 7, 10))
  /\ CharAt(text, 11) \in Whitespace

\* m.group(1) and m.group(2)
CardDate(text) == SubSeq(text, 1, 10)

CardRest(text) == LStrip(SubSeq(text, 11, Len(text)))

\* The item extract_items_from_html appends for an anchor that matches: the
\* id is made of date_str as it stands on the page and of the last segment
\* of the url.  (No anchor of the model has an image, a category element or
\* an article.text-article among its ancestors.)
ScrapedItem(a) ==
  [id          |-> Str("fauskenf-" \o CardDate(a.text) \o "-"
                         \o LastSegment(RStripSlash(
                              make_absolute_url(a.href)))),
   source      |-> "fauskenf",
   sourceName  |-> "Fauske Næringsforum",
   date        |-> Str(CardDate(a.text)),
   title       |-> IF a.header # None THEN a.header
                   ELSE Str(CardRest(a.text)),
   ingress     |-> IF a.p # None THEN a.p ELSE Str(""),
   category    |-> None,
   image       |-> None,
   url         |-> Str(make_absolute_url(a.href)),
   rawText     |-> Str(a.text),
   articleBody |-> None,
   articleHtml |-> None]

\* extract_items_from_html: one item for each anchor with a text that
\* matches date_pattern, in the order of the page.
RECURSIVE extract_items_from_html(_)
extract_items_from_html(anchors) ==
  IF Len(anchors) = 0 THEN <<>>
  ELSE
    LET a == anchors[Len(anchors)]
        front == extract_items_from_html(SubSeq(anchors, 1, Len(anchors) - 1))
    IN  IF a.text # "" /\ MatchesDatePattern(a.text)
        THEN front \o <<ScrapedItem(a)>>
        ELSE front

\* extract_article_text: the text and the markup of <article
\* class="text-article">, None for a page without it.
extract_article_text(page) ==
  IF page.article = None
  THEN [articleBody |-> None, articleHtml |-> None]
  ELSE [articleBody |-> page.article,
        articleHtml |-> Str("<article class=\"text-article\">"
                              \o page.article.v \o "</article>")]

\* A scraped item as json.dumps writes it and load_nf_items reads it: the
\* keys item.get asks for.
RawOfScraped(item) ==
  [EmptyRaw EXCEPT !.id = item.id, !.title = item.title, !.url = item.url,
                   !.image = item.image, !.date = item.date,
                   !.ingress = item.ingress, !.category = item.category,
                   !.articleBody = item.articleBody]

\* ------------------------------------------------------------------------
\* scrape_fauskekino_kultur.py: the culture programme
\* ------------------------------------------------------------------------

\* The characters of the show times, in the order of their code points.
CodePointOrder == " +-.0123456789:TZ"

CodeRank(c) ==
  CHOOSE i \in 1..Len(CodePointOrder) : CharAt(CodePointOrder, i) = c

\* a < b for two str: the comparison list.sort makes of two keys.
RECURSIVE StrLess(_, _)
StrLess(a, b) ==
  IF Len(b) = 0 THEN FALSE
  ELSE IF Len(a) = 0 THEN TRUE
  ELSE IF CharAt(a, 1) = CharAt(b, 1)
  THEN StrLess(SubSeq(a, 2, Len(a)), SubSeq(b, 2, Len(b)))
  ELSE CodeRank(CharAt(a, 1)) < CodeRank(CharAt(b, 1))

\* A show of raw["shows"].
Show(movieVersionId, movieTitle, showStart) ==
  [movieVersionId |-> movieVersionId, movieTitle |-> movieTitle,
   showStart |-> showStart, screenName |-> Str("Kultursalen"),
   ticketSaleUrl |-> None, showType |-> None]

\* The dict appended to ev["shows"].
ShowEntry(show) ==
  [screenName |-> show.screenName, ticketSaleUrl |-> show.ticketSaleUrl,
   showStart |-> show.showStart, showType |-> show.showType]

\* articles.get(kul, {}).get("title"): the title of the article of the
\* number, None when there is no article or it has no title.
ArticleTitle(articles, kul) ==
  IF \E a \in articles : a.id = kul.v
  THEN (CHOOSE a \in articles : a.id = kul.v).title
  ELSE None

\* The event made for the first show of a number.
NewEvent(show, articles) ==
  LET kul == show.movieVersionId
      art_title == Or(ArticleTitle(articles, kul), show.movieTitle)
  IN  [id         |-> kul,
       title      |-> Or(art_title, show.movieTitle),
       movieTitle |-> show.movieTitle,
       url        |-> Str("https://www.fauskekino.no/kulturprogram/" \o kul.v),
       shows      |-> <<ShowEntry(show)>>]

\* The loop of build_program: events_by_kul.values() in the order the
\* numbers were first seen.  A show without a number is passed over.
RECURSIVE events_by_kul(_, _)
events_by_kul(shows, articles) ==
  IF Len(shows) = 0 THEN <<>>
  ELSE
    LET front == events_by_kul(SubSeq(shows, 1, Len(shows) - 1), articles)
        show == shows[Len(shows)]
        seen == {i \in 1..Len(front) : front[i].id = show.movieVersionId}
    IN  IF ~Truthy(show.movieVersionId) THEN front
        ELSE IF seen # {}
        THEN [front EXCEPT ![CHOOSE i \in seen : TRUE].shows =
                             @ \o <<ShowEntry(show)>>]
        ELSE front \o <<NewEvent(show, articles)>>

\* The sort key of an event: the showStart of its first show.
EventKey(e) == IF Len(e.shows) > 0 THEN e.shows[1].showStart ELSE Str("")

\* InsertByStart that puts x in front of the events with an equal or later
\* key.
InsertByStartDescending(s, x) ==
  LET ahead == {i \in 1..Len(s) : StrLess(EventKey(x).v, EventKey(s[i]).v)}
      p == Cardinality(ahead)
  IN  SubSeq(s, 1, p) \o <<x>> \o SubSeq(s, p + 1, Len(s))

\* x inserted into s, sorted by key, behind every event whose key is not
\* later than the key of x.
InsertByStart(s, x) ==
  LET ahead == {i \in 1..Len(s) : ~StrLess(EventKey(x).v, EventKey(s[i]).v)}
      p == Cardinality(ahead)
  IN  SubSeq(s, 1, p) \o <<x>> \o SubSeq(s, p + 1, Len(s))

\* events.sort(key=...): ascending and stable.
RECURSIVE SortByStart(_)
SortByStart(events) ==
  IF Len(events) = 0 THEN <<>>
  ELSE InsertByStart(SortByStart(SubSeq(events, 1, Len(events) - 1)),
                     events[Len(events)])

\* events.sort raises TypeError: two or more events are compared and a key
\* is None, which has no order with a str nor with None.
KulturSortRaises(events) ==
  /\ Len(events) >= 2
  /\ \E i \in 1..Len(events) : ~IsStr(EventKey(events[i]))

\* build_program(raw_wrapper): the events, or the exception of the sort.
build_program(raw) ==
  LET events == events_by_kul(raw.shows, raw.fwpakkeArticles)
  IN  IF KulturSortRaises(events) THEN Raises("TypeError")
      ELSE Returns(SortByStart(events))

\* A file of the culture scraper: absent, or the JSON written.
NoKulturFile == [exists |-> FALSE, content |-> <<>>]

KulturFile(content) == [exists |-> TRUE, content |-> content]

\* ------------------------------------------------------------------------
\* The merge run
\* ------------------------------------------------------------------------

VARIABLES
  kommuneFile,    \* data/nyheter.json
  nfFile,         \* data/fauskenf_nyheter.json
  outputFile,     \* data/aktuelt_combined.json
  outputBefore,   \* outputFile as it was when the current run started
  pc,             \* where main is
  kommune_items,  \* build_combined's local kommune_items
  nf_items,       \* build_combined's local nf_items
  combined,       \* main's local combined
  err,            \* the exception that ended the run, "" if none
  now,            \* the clock, datetime.now()
  runs,           \* runs of main started so far
  dateCall,       \* the last call of a date function: argument and result
  nfScrape,       \* the run of scrape_fauskenf_nyheter.py
  kultur          \* the run of scrape_fauskekino_kultur.py

\* The variables of the merge run.
mergeVars ==
  <<kommuneFile, nfFile, outputFile, outputBefore, pc, kommune_items,
    nf_items, combined, err, now, runs>>

vars == <<mergeVars, dateCall, nfScrape, kultur>>

\* No date function has been called.
NoCall == [date_str |-> None, fn |-> "none", returned |-> None]

\* The Naeringsforum scraper has not run: pc is where main is, anchors the
\* <a> elements of the list page, items the list of scrape_fauskenf_nyheter,
\* next the index of the item of the loop, requested the urls of the article
\* requests made, warnings the urls of the ADVARSEL lines printed.
NoScrape ==
  [pc |-> "idle", anchors |-> <<>>, items |-> <<>>, next |-> 1,
   requested |-> <<>>, warnings |-> <<>>]

\* The output file: absent, or the JSON document main wrote.
NoOutput == [exists |-> FALSE, lastUpdated |-> 0, items |-> <<>>]

Document(lastUpdated, items) ==
  [exists |-> TRUE, lastUpdated |-> lastUpdated, items |-> items]

\* An output file left by a run before the first one of the behaviour.
OldOutput ==
  Document(0, <<NormalizeKommune([EmptyRaw EXCEPT !.title = Str("forrige"),
                                    !.published = Str("2025-11-01")])>>)

NoFeed == [lastUpdated |-> 0, items |-> <<>>]

\* The culture programme scraper has not run: pc is where main is, api the
\* answer of the API, rawFile and outFile the two files main writes,
\* program what build_program returned.
NoKultur ==
  [pc |-> "idle", api |-> [shows |-> <<>>, fwpakkeArticles |-> {}],
   rawFile |-> NoKulturFile, outFile |-> NoKulturFile, program |-> <<>>,
   err |-> ""]

\* The input files of a behaviour: each absent, malformed or a JSON
\* document, with at most MaxItems raw items in the two together.
Init ==
  /\ \E kn \in 0..MaxItems :
       \E nn \in 0..(MaxItems - kn) :
         /\ kommuneFile \in {MissingFile, MalformedFile}
                              \cup {JsonFile(q) : q \in [1..kn -> KommuneRaw]}
         /\ nfFile \in {MissingFile, MalformedFile}
                         \cup {JsonFile(q) : q \in [1..nn -> NfRaw]}
  /\ outputFile \in {NoOutput, OldOutput}
  /\ outputBefore = outputFile
  /\ pc = "idle"
  /\ kommune_items = <<>>
  /\ nf_items = <<>>
  /\ combined = NoFeed
  /\ err = ""
  /\ now = 0
  /\ runs = 0
  /\ dateCall = NoCall
  /\ nfScrape = NoScrape
  /\ kultur = NoKultur

\* main is started: DATA_DIR.mkdir(parents=True, exist_ok=True) creates no
\* file, and build_combined is entered.
Start ==
  /\ pc \in {"idle", "done", "failed"}
  /\ runs < MaxRuns
  /\ runs' = runs + 1
  /\ now' = now + 1
  /\ outputBefore' = outputFile
  /\ kommune_items' = <<>>
  /\ nf_items' = <<>>
  /\ combined' = NoFeed
  /\ err' = ""
  /\ pc' = "load_kommune"
  /\ UNCHANGED <<kommuneFile, nfFile, outputFile,
                 dateCall, nfScrape, kultur>>

\* kommune_items = load_kommune_items()
LoadKommune ==
  /\ pc = "load_kommune"
  /\ load_kommune_items(kommuneFile).ok
  /\ kommune_items' = load_kommune_items(kommuneFile).items
  /\ pc' = "load_nf"
  /\ UNCHANGED <<kommuneFile, nfFile, outputFile, outputBefore, nf_items,
                 combined, err, now, runs,
                 dateCall, nfScrape, kultur>>

\* load_kommune_items() raises: the exception leaves build_combined and main.
LoadKommuneRaises ==
  /\ pc = "load_kommune"
  /\ ~load_kommune_items(kommuneFile).ok
  /\ err' = load_kommune_items(kommuneFile).err
  /\ pc' = "failed"
  /\ UNCHANGED <<kommuneFile, nfFile, outputFile, outputBefore,
                 kommune_items, nf_items, combined, now, runs,
                 dateCall, nfScrape, kultur>>

\* nf_items = load_nf_items()
LoadNf ==
  /\ pc = "load_nf"
  /\ load_nf_items(nfFile).ok
  /\ nf_items' = load_nf_items(nfFile).items
  /\ pc' = "sort"
  /\ UNCHANGED <<kommuneFile, nfFile, outputFile, outputBefore,
                 kommune_items, combined, err, now, runs,
                 dateCall, nfScrape, kultur>>

\* load_nf_items() raises.
LoadNfRaises ==
  /\ pc = "load_nf"
  /\ ~load_nf_items(nfFile).ok
  /\ err' = load_nf_items(nfFile).err
  /\ pc' = "failed"
  /\ UNCHANGED <<kommuneFile, nfFile, outputFile, outputBefore,
                 kommune_items, nf_items, combined, now, runs,
                 dateCall, nfScrape, kultur>>

\* all_items = kommune_items + nf_items; all_items.sort(...); the feed is
\* returned to main with lastUpdated = datetime.now().
SortAndReturn ==
  /\ pc = "sort"
  /\ ~SortRaises(kommune_items \o nf_items)
  /\ combined' = [lastUpdated |-> now,
                  items |-> SortDescending(kommune_items \o nf_items)]
  /\ pc' = "write"
  /\ UNCHANGED <<kommuneFile, nfFile, outputFile, outputBefore,
                 kommune_items, nf_items, err, now, runs,
                 dateCall, nfScrape, kultur>>

\* all_items.sort(...) raises TypeError.
SortFails ==
  /\ pc = "sort"
  /\ SortRaises(kommune_items \o nf_items)
  /\ err' = "TypeError"
  /\ pc' = "failed"
  /\ UNCHANGED <<kommuneFile, nfFile, outputFile, outputBefore,
                 kommune_items, nf_items, combined, now, runs,
                 dateCall, nfScrape, kultur>>

\* WriteOutput that keeps the items of the file it finds behind the new ones.
WriteOutputMerging ==
  /\ pc = "write"
  /\ outputFile' = Document(combined.lastUpdated,
                            combined.items \o outputFile.items)
  /\ pc' = "done"
  /\ UNCHANGED <<kommuneFile, nfFile, outputBefore, kommune_items, nf_items,
                 combined, err, now, runs,
                 dateCall, nfScrape, kultur>>

\* OUTPUT_PATH.write_text(json.dumps(combined, ...)): the file is replaced
\* by the serialized feed.
WriteOutput ==
  /\ pc = "write"
  /\ outputFile' = Document(combined.lastUpdated, combined.items)
  /\ pc' = "done"
  /\ UNCHANGED <<kommuneFile, nfFile, outputBefore, kommune_items, nf_items,
                 combined, err, now, runs,
                 dateCall, nfScrape, kultur>>

Next ==
  \/ Start
  \/ LoadKommune
  \/ LoadKommuneRaises
  \/ LoadNf
  \/ LoadNfRaises
  \/ SortAndReturn
  \/ SortFails
  \/ WriteOutput

Spec == Init /\ [][Next]_vars

\* ------------------------------------------------------------------------
\* The date functions, called on their own
\* ------------------------------------------------------------------------

\* The date texts of a behaviour: the formats the scrapers write, and texts
\* that are none of them.
DateTexts ==
  {"", "  ", "ukjent",
   "2025-11-13", "2025-11-17", "0001-01-01", "2024-02-29", "2025-02-29",
   "2025-13-01", "2025-1-3", " 2025-11-13",
   "2025-11-13T10:00:00", "2025-11-13T10:00:00+01:00", "2025-11-13 10:00",
   "2025-11-13T25:00", "2025-11-17 kl. 18", "2025-11-13 13.11.2025",
   "2025-02-29 28.02.2025",
   "13.11.2025", "1.2.2025", " 13.11.2025 ", "31.02.2025", "13.11.25",
   "13.11.2025 kl. 18",
   "13. november 2025", "13. november 2025 kl. 18:00", "13 november 2025",
   "13 NOVEMBER 2025", "  3. Mars 2024 ", "1. mai 2025", "13. nov 2025",
   "13. november", "13.november 2025", "tretten november 2025",
   "31. februar 2025", "29. februar 2024", "29. februar 2025",
   "13. november 25", "13.. november 2025", "+13. november 2025",
   "13. november -5", "13. november 0", "13. november 10000",
   "0. november 2025", "13. november 2025.", "13. 11 2025",
   "2025 november 13"}

\* The arguments of a call: null or a text.
DateValues == {None} \cup {Str(t) : t \in DateTexts}

\* The merge run is not started and nothing is in its files.
MergeIdle ==
  /\ kommuneFile = MissingFile
  /\ nfFile = MissingFile
  /\ outputFile = NoOutput
  /\ outputBefore = NoOutput
  /\ pc = "idle"
  /\ kommune_items = <<>>
  /\ nf_items = <<>>
  /\ combined = NoFeed
  /\ err = ""
  /\ now = 0
  /\ runs = 0

InitDates ==
  /\ MergeIdle
  /\ nfScrape = NoScrape
  /\ kultur = NoKultur
  /\ \E d \in DateValues : dateCall = [NoCall EXCEPT !.date_str = d]

\* scrape.parse_date(date_str)
CallParseDate ==
  /\ dateCall' = [dateCall EXCEPT !.fn = "parse_date",
                                  !.returned = parse_date(dateCall.date_str)]
  /\ UNCHANGED <<mergeVars, nfScrape, kultur>>

\* load_nf_items normalizes a raw item whose date is date_str: published is
\* parse_date_fauskenf(date_str).
CallParseDateFauskenf ==
  /\ dateCall' =
       [dateCall EXCEPT
          !.fn = "parse_date_fauskenf",
          !.returned =
             NormalizeNf([EmptyRaw EXCEPT !.date = dateCall.date_str])
               .published]
  /\ UNCHANGED <<mergeVars, nfScrape, kultur>>

\* parse_date_sortkey(date_str)
CallParseDateSortkey ==
  /\ dateCall' =
       [dateCall EXCEPT !.fn = "parse_date_sortkey",
                        !.returned = parse_date_sortkey(dateCall.date_str)]
  /\ UNCHANGED <<mergeVars, nfScrape, kultur>>

NextDates ==
  \/ CallParseDate
  \/ CallParseDateFauskenf
  \/ CallParseDateSortkey

SpecDates == InitDates /\ [][NextDates]_vars

\* ------------------------------------------------------------------------
\* The run of scrape_fauskenf_nyheter.py
\* ------------------------------------------------------------------------

\* The anchors a list page is made of: news cards with an absolute, a rooted
\* and a relative href, and anchors that are no news card.
Anchors ==
  {Anchor("/nyheter-alle-nyheter/slug-1234",
          "17.11.2025 Lokal kompetanseheving", None, None),
   Anchor("https://www.fauskenf.no/nyheter-alle-nyheter/sak/",
          "13.11.2025 Sak Kort ingress", Str("Sak"), Str("Kort ingress")),
   Anchor("nyheter/b", "01.02.2025 B", None, None),
   Anchor("/nyheter/umulig", "99.99.2025 Umulig dato", None, None),
   Anchor("/nyheter/kort-dato", "1.2.2025 Kort dato", None, None),
   Anchor("/nyheter/bare-dato", "17.11.2025", None, None),
   Anchor("/om-oss", "Om oss", None, None),
   Anchor("/", "", None, None)}

\* The article pages a request can answer with.
ArticlePages ==
  {[article |-> Str("Hele artikkelen")], [article |-> None]}

InitNf ==
  /\ MergeIdle
  /\ dateCall = NoCall
  /\ kultur = NoKultur
  /\ \E n \in 0..MaxCards :
       \E q \in [1..n -> Anchors] : nfScrape = [NoScrape EXCEPT !.anchors = q]

unchangedByScraper ==
  <<kommuneFile, outputFile, outputBefore, pc, kommune_items, nf_items,
    combined, err, now, runs, dateCall, kultur>>

\* requests.get(LIST_URL) answers and raise_for_status passes: the items of
\* the page are extracted.
FetchList ==
  /\ nfScrape.pc = "idle"
  /\ nfScrape' = [nfScrape EXCEPT
                    !.pc = "articles",
                    !.items = extract_items_from_html(nfScrape.anchors),
                    !.next = 1]
  /\ UNCHANGED <<nfFile, unchangedByScraper>>

\* requests.get(LIST_URL) or raise_for_status raises: the exception leaves
\* main and nothing is written.
FetchListFails ==
  /\ nfScrape.pc = "idle"
  /\ nfScrape' = [nfScrape EXCEPT !.pc = "failed"]
  /\ UNCHANGED <<nfFile, unchangedByScraper>>

\* One iteration of the loop: the article page of the item is requested and
\* answers, and articleBody and articleHtml are taken from it.
FetchArticle ==
  /\ nfScrape.pc = "articles"
  /\ nfScrape.next <= Len(nfScrape.items)
  /\ \E page \in ArticlePages :
       nfScrape' =
         [nfScrape EXCEPT
            !.items[nfScrape.next].articleBody =
               extract_article_text(page).articleBody,
            !.items[nfScrape.next].articleHtml =
               extract_article_text(page).articleHtml,
            !.requested = @ \o <<nfScrape.items[nfScrape.next].url>>,
            !.next = @ + 1]
  /\ UNCHANGED <<nfFile, unchangedByScraper>>

\* FetchArticleFails without the except block: the exception leaves the loop
\* and main.
FetchArticleFailsAborts ==
  /\ nfScrape.pc = "articles"
  /\ nfScrape.next <= Len(nfScrape.items)
  /\ nfScrape' =
       [nfScrape EXCEPT
          !.pc = "failed",
          !.requested = @ \o <<nfScrape.items[nfScrape.next].url>>,
          !.warnings = @ \o <<nfScrape.items[nfScrape.next].url>>]
  /\ UNCHANGED <<nfFile, unchangedByScraper>>

\* One iteration of the loop: the request or raise_for_status raises, the
\* exception is caught, a warning is printed and articleBody and articleHtml
\* are None.
FetchArticleFails ==
  /\ nfScrape.pc = "articles"
  /\ nfScrape.next <= Len(nfScrape.items)
  /\ nfScrape' =
       [nfScrape EXCEPT
          !.items[nfScrape.next].articleBody = None,
          !.items[nfScrape.next].articleHtml = None,
          !.requested = @ \o <<nfScrape.items[nfScrape.next].url>>,
          !.warnings = @ \o <<nfScrape.items[nfScrape.next].url>>,
          !.next = @ + 1]
  /\ UNCHANGED <<nfFile, unchangedByScraper>>

\* The loop is over: scrape_fauskenf_nyheter returns and main writes
\* data/fauskenf_nyheter.json.
WriteNf ==
  /\ nfScrape.pc = "articles"
  /\ nfScrape.next > Len(nfScrape.items)
  /\ nfFile' = JsonFile([i \in 1..Len(nfScrape.items) |->
                           RawOfScraped(nfScrape.items[i])])
  /\ nfScrape' = [nfScrape EXCEPT !.pc = "done"]
  /\ UNCHANGED unchangedByScraper

NextNf ==
  \/ FetchList
  \/ FetchListFails
  \/ FetchArticle
  \/ FetchArticleFails
  \/ WriteNf

SpecNf == InitNf /\ [][NextNf]_vars

\* ------------------------------------------------------------------------
\* The run of scrape_fauskekino_kultur.py
\* ------------------------------------------------------------------------

\* The shows an answer of the API is made of: two numbers with two shows
\* each, shows without a number, and a number whose showStart is missing or
\* empty.
KulturShows ==
  {Show(Str("KUL1"), Str("Konsert"), Str("2025-11-13T19:00:00")),
   Show(Str("KUL1"), Str("Konsert"), Str("2025-11-11T19:00:00")),
   Show(Str("KUL2"), Str("Teater"), Str("2025-11-12T18:00:00")),
   Show(Str("KUL2"), None, Str("2025-11-13T19:00:00")),
   Show(None, Str("Uten nummer"), Str("2025-11-10T10:00:00")),
   Show(Str(""), Str("Tomt nummer"), Str("2025-11-10T10:00:00")),
   Show(Str("KUL3"), Str("Foredrag"), None),
   Show(Str("KUL3"), Str("Foredrag"), Str(""))}

\* raw["fwpakkeArticles"]: none, or an article with a title for KUL1 and one
\* without a title for KUL2.
KulturArticles ==
  {{},
   {[id |-> "KUL1", title |-> Str("Høstkonsert")],
    [id |-> "KUL2", title |-> None]}}

InitKultur ==
  /\ MergeIdle
  /\ dateCall = NoCall
  /\ nfScrape = NoScrape
  /\ \E n \in 0..MaxShows :
       \E q \in [1..n -> KulturShows] :
         \E articles \in KulturArticles :
           kultur = [NoKultur EXCEPT
                       !.api = [shows |-> q, fwpakkeArticles |-> articles]]

\* fetch_culture_raw() returns the answer of the API.
FetchCulture ==
  /\ kultur.pc = "idle"
  /\ kultur' = [kultur EXCEPT !.pc = "write_raw"]
  /\ UNCHANGED <<mergeVars, dateCall, nfScrape>>

\* requests.get, raise_for_status or resp.json() raises: the exception
\* leaves main and nothing is written.
FetchCultureFails ==
  /\ kultur.pc = "idle"
  /\ kultur' = [kultur EXCEPT !.pc = "failed", !.err = "RequestException"]
  /\ UNCHANGED <<mergeVars, dateCall, nfScrape>>

\* RAW_PATH.write_text(json.dumps(wrapper, ...))
WriteRaw ==
  /\ kultur.pc = "write_raw"
  /\ kultur' = [kultur EXCEPT !.rawFile = KulturFile(kultur.api),
                              !.pc = "build"]
  /\ UNCHANGED <<mergeVars, dateCall, nfScrape>>

\* program = build_program(api_data)
BuildProgram ==
  /\ kultur.pc = "build"
  /\ build_program(kultur.api).ok
  /\ kultur' = [kultur EXCEPT !.program = build_program(kultur.api).items,
                              !.pc = "write_out"]
  /\ UNCHANGED <<mergeVars, dateCall, nfScrape>>

\* build_program raises: the exception leaves main after the raw file is
\* written.
BuildProgramRaises ==
  /\ kultur.pc = "build"
  /\ ~build_program(kultur.api).ok
  /\ kultur' = [kultur EXCEPT !.err = build_program(kultur.api).err,
                              !.pc = "failed"]
  /\ UNCHANGED <<mergeVars, dateCall, nfScrape>>

\* OUT_PATH.write_text(json.dumps(program, ...))
WriteProgram ==
  /\ kultur.pc = "write_out"
  /\ kultur' = [kultur EXCEPT !.outFile = KulturFile(kultur.program),
                              !.pc = "done"]
  /\ UNCHANGED <<mergeVars, dateCall, nfScrape>>

NextKultur ==
  \/ FetchCulture
  \/ FetchCultureFails
  \/ WriteRaw
  \/ BuildProgram
  \/ BuildProgramRaises
  \/ WriteProgram

SpecKultur == InitKultur /\ [][NextKultur]_vars

\* ------------------------------------------------------------------------
\* Properties
\* ------------------------------------------------------------------------

\* build_combined has returned its feed to main.
Returned == pc \in {"write", "done"}

Feed == combined.items

\* The list build_combined sorts.
Concatenated == kommune_items \o nf_items

\* One of the three attempts of parse_date_sortkey reads the published value
\* of the item as a date.
HasParseableDate(item) ==
  /\ IsStr(item.published)
  /\ Truthy(item.published)
  /\ SortKeyAttempts(item.published.v).ok

AdjacentDescending ==
  \A i \in 1..(Len(Feed) - 1) :
    ~Earlier(SortKey(Feed[i]), SortKey(Feed[i + 1]))

\* C1 as stated: in the returned feed the keys of adjacent items do not
\* increase, and every item without a parseable date comes after every item
\* with one.
C1_UnparseableAfterParseable ==
  Returned =>
    /\ AdjacentDescending
    /\ \A i, j \in 1..Len(Feed) :
         (i < j /\ HasParseableDate(Feed[j])) => HasParseableDate(Feed[i])

\* C1 amended: in the returned feed the keys of adjacent items do not
\* increase, and every item whose key is datetime.min comes after every item
\* whose key is later than datetime.min.
C1_SortedNewestFirst ==
  Returned =>
    /\ AdjacentDescending
    /\ \A i, j \in 1..Len(Feed) :
         (i < j /\ SortKey(Feed[i]) = DatetimeMin)
           => ~Earlier(DatetimeMin, SortKey(Feed[j]))

\* The sort moved an item with a date in front of an item without one.
C1_Witness ==
  /\ Returned
  /\ Len(Feed) = 2
  /\ Feed # Concatenated
  /\ HasParseableDate(Feed[1])
  /\ ~HasParseableDate(Feed[2])
  /\ Earlier(SortKey(Feed[2]), SortKey(Feed[1]))

\* The items of a list whose key equals k, in the order of the list.
WithKey(items, k) ==
  SelectSeq(items, LAMBDA e : SameInstant(SortKey(e), k))

\* C2: the items of the returned feed that have equal sort keys are in the
\* order of the concatenation kommune_items + nf_items: kommune items before
\* NF items, and the items of one source in the order of their file.
C2_StableAmongEqualKeys ==
  Returned =>
    /\ \A i \in 1..Len(Feed) :
         WithKey(Feed, SortKey(Feed[i])) = WithKey(Concatenated, SortKey(Feed[i]))
    /\ \A i, j \in 1..Len(Feed) :
         (i < j /\ SameInstant(SortKey(Feed[i]), SortKey(Feed[j])))
           => ~(Feed[i].source = "fauskenf" /\ Feed[j].source = "fauske_kommune")

\* A kommune item and an NF item of the same date are both in the feed.
C2_Witness ==
  /\ Returned
  /\ Len(Feed) = 2
  /\ Feed[1].source = "fauske_kommune"
  /\ Feed[2].source = "fauskenf"
  /\ HasParseableDate(Feed[1])
  /\ SameInstant(SortKey(Feed[1]), SortKey(Feed[2]))

\* C3: the sort of build_combined never raises, whatever published values
\* the items carry.
C3_SortNeverRaises == ~(pc = "failed" /\ err = "TypeError")

\* C4: when one input file does not exist (and the other is a JSON
\* document), the run raises no error and the feed holds exactly the
\* normalized items of the other source; when both are missing the feed is
\* empty.
C4_MissingFileTolerated ==
  /\ (~kommuneFile.exists /\ nfFile.wellformed) =>
       /\ pc # "failed"
       /\ Returned => Feed = SortDescending([i \in 1..Len(nfFile.items) |->
                                               NormalizeNf(nfFile.items[i])])
  /\ (~nfFile.exists /\ kommuneFile.wellformed) =>
       /\ pc # "failed"
       /\ Returned => Feed = SortDescending([i \in 1..Len(kommuneFile.items) |->
                                               NormalizeKommune(kommuneFile.items[i])])
  /\ (~kommuneFile.exists /\ ~nfFile.exists) =>
       /\ pc # "failed"
       /\ Returned => Feed = <<>>

DistinctIds(items) ==
  \A i, j \in 1..Len(items) : i # j => items[i].id # items[j].id

\* C6: neither load_kommune_items nor load_nf_items returns two items with
\* the same id.
C6_UniqueIdsPerSource == DistinctIds(kommune_items) /\ DistinctIds(nf_items)

\* The normalized items in the state: the two lists of this run, the feed,
\* and the items of the output file, written by the run before.
Range(q) == {q[i] : i \in 1..Len(q)}

Normalized ==
  Range(kommune_items) \cup Range(nf_items) \cup Range(Feed)
    \cup Range(outputFile.items)

\* C7: two normalized items of the same source with the same raw item have
\* the same id, at whatever position and in whatever run they were made.
C7_IdDependsOnRawOnly ==
  \A a, b \in Normalized :
    (a.source = b.source /\ a.raw = b.raw) => a.id = b.id

\* The second run has normalized a raw item that occurs twice in the kommune
\* file, and the output file holds the items of the first run.
C7_Witness ==
  /\ pc = "write"
  /\ runs = 2
  /\ outputFile.exists /\ outputFile.lastUpdated = 1
  /\ combined.lastUpdated = 2
  /\ Len(kommune_items) = 2
  /\ kommune_items[1].raw = kommune_items[2].raw
  /\ \E n \in Range(outputFile.items) : n.raw = kommune_items[1].raw

\* s has the form YYYY-MM-DD.
IsoDateText(s) ==
  /\ Len(s) = 10
  /\ AllDigits(SubSeq(s, 1, 4)) /\ CharAt(s, 5) = "-"
  /\ AllDigits(SubSeq(s, 6, 7)) /\ CharAt(s, 8) = "-"
  /\ AllDigits(SubSeq(s, 9, 10))

\* C8: the published value of every item of the returned feed is None or a
\* string of the form YYYY-MM-DD.
C8_PublishedIsoOrNull ==
  Returned =>
    \A i \in 1..Len(Feed) :
      \/ Feed[i].published = None
      \/ IsStr(Feed[i].published) /\ IsoDateText(Feed[i].published.v)

\* The raw field the published value of a normalized item is made from.
DateText(n) ==
  IF n.source = "fauskenf" THEN n.raw.date ELSE n.raw.published

\* A date text that none of the date functions reads as a date.
Unparseable(x) ==
  /\ IsStr(x)
  /\ Truthy(x)
  /\ ~SortKeyAttempts(x.v).ok
  /\ parse_date_fauskenf(x) = None

\* C9: a raw item whose date text cannot be parsed is emitted with published
\* None and publishedText equal to the date text, and a file with such an item
\* yields one normalized item for each of its raw items.
C9_UnparseableDateKeepsItem ==
  /\ \A n \in Range(kommune_items) \cup Range(nf_items) :
       Unparseable(DateText(n)) =>
         n.published = None /\ n.publishedText = DateText(n)
  /\ pc \in {"load_nf", "sort", "write", "done"} =>
       ((\E i \in 1..Len(kommuneFile.items) :
            Unparseable(kommuneFile.items[i].published))
          => Len(kommune_items) = Len(kommuneFile.items))
  /\ pc \in {"sort", "write", "done"} =>
       ((\E i \in 1..Len(nfFile.items) : Unparseable(nfFile.items[i].date))
          => Len(nf_items) = Len(nfFile.items))

\* A raw field that is present but not a string.
WrongShape(x) == x # None /\ ~IsStr(x)

\* C10: a field of the wrong shape makes no load function raise, and the
\* item is emitted with that field None.
C10_WrongShapeTolerated ==
  /\ ~(pc = "failed" /\ err = "AttributeError")
  /\ \A n \in Range(kommune_items) \cup Range(nf_items) :
       /\ WrongShape(n.raw.title) => n.title = None
       /\ WrongShape(n.raw.url) => n.url = None
       /\ WrongShape(n.raw.id) => IsStr(n.id)
       /\ WrongShape(DateText(n)) => n.published = None


\* ------------------------------------------------------------------------
\* Properties of the date functions
\* ------------------------------------------------------------------------

\* A text YYYY-MM-DD that names a day of the calendar.
ValidIsoDateText(s) ==
  /\ IsoDateText(s)
  /\ ValidDate(ToInt(SubSeq(s, 1, 4)), ToInt(SubSeq(s, 6, 7)),
               ToInt(SubSeq(s, 9, 10)))

\* A datetime value: a day of the calendar and a time of the day.
IsDatetime(dt) ==
  /\ DOMAIN dt = {"y", "m", "d", "hh", "mi", "ss", "aware", "off"}
  /\ ValidDate(dt.y, dt.m, dt.d)
  /\ dt.hh \in 0..23 /\ dt.mi \in 0..59 /\ dt.ss \in 0..59

\* C11: for every text, and for null, no call of parse_date,
\* parse_date_fauskenf or parse_date_sortkey raises; parse_date and
\* parse_date_fauskenf return None or a valid date YYYY-MM-DD, and
\* parse_date_sortkey returns a datetime.
C11_DateFunctionsTotal ==
  /\ dateCall.fn \in {"parse_date", "parse_date_fauskenf"} =>
       \/ dateCall.returned = None
       \/ IsStr(dateCall.returned) /\ ValidIsoDateText(dateCall.returned.v)
  /\ dateCall.fn = "parse_date_sortkey" => IsDatetime(dateCall.returned)

\* parse_date has caught the ValueError of a day the month does not have.
C11_Witness ==
  /\ dateCall.date_str = Str("31. februar 2025")
  /\ dateCall.fn = "parse_date"
  /\ dateCall.returned = None


\* The four-step chain on a date text: the whole text as an ISO 8601 date or
\* date-time, its first 10 characters as YYYY-MM-DD, day.month.year with
\* dots, the free text "day. monthname year"; None when the four fail.
FourStepChain(text) ==
  LET iso == FromIsoFormat(text)
      ymd == StrptimeYMD(SubSeq(text, 1,
                                IF Len(text) < 10 THEN Len(text) ELSE 10))
      dmy == StrptimeDMY(Strip(text))
  IN  IF iso.ok THEN Str(IsoFormat(iso.dt))
      ELSE IF ymd.ok THEN Str(IsoFormat(ymd.dt))
      ELSE IF dmy.ok THEN Str(IsoFormat(dmy.dt))
      ELSE parse_date(Str(text))

\* C12: the published value load_nf_items gives an item whose date is a text
\* is the result of the four-step chain on that text, and so is None only
\* when the four steps fail.
C12_PublishedIsFourStepChain ==
  (dateCall.fn = "parse_date_fauskenf" /\ IsStr(dateCall.date_str)) =>
    dateCall.returned = FourStepChain(dateCall.date_str.v)

\* The first three tokens of the text name a day of the calendar: the day
\* (trailing period stripped) and the year are integers, the month name is in
\* the table when lower-cased.
NamesCalendarDay(tokens) ==
  /\ Len(tokens) >= 3
  /\ IntText(RStripDot(tokens[1]))
  /\ IntText(tokens[3])
  /\ \E m \in 1..12 :
       /\ NORWEGIAN_MONTHS[m] = Lower(tokens[2])
       /\ ValidDate(IntOf(tokens[3]), m, IntOf(RStripDot(tokens[1])))

\* C13: parse_date of a text returns the ISO date of the day, month name and
\* year in the first three whitespace-separated tokens, whatever tokens follow,
\* when they name a day of the calendar, and None in every other case: fewer
\* than three tokens, a month name outside the table, a day or year that is
\* not an integer, a day that does not exist.
C13_ParseDateFirstThreeTokens ==
  (dateCall.fn = "parse_date" /\ IsStr(dateCall.date_str)) =>
    LET tokens == Tokens(dateCall.date_str.v)
    IN  IF NamesCalendarDay(tokens)
        THEN /\ IsStr(dateCall.returned)
             /\ \E m \in 1..12 :
                  /\ NORWEGIAN_MONTHS[m] = Lower(tokens[2])
                  /\ dateCall.returned.v =
                       Pad(IntOf(tokens[3]), 4) \o "-" \o Pad(m, 2) \o "-"
                         \o Pad(IntOf(RStripDot(tokens[1])), 2)
        ELSE dateCall.returned = None

\* parse_date has read the date of a text with more than three tokens.
C13_Witness ==
  /\ dateCall.fn = "parse_date"
  /\ dateCall.date_str = Str("13. november 2025 kl. 18:00")
  /\ dateCall.returned = Str("2025-11-13")


\* The first 10 characters of the text.
Prefix10(text) == SubSeq(text, 1, IF Len(text) < 10 THEN Len(text) ELSE 10)

\* The key the three attempts give a text, in their order: the whole text as
\* ISO 8601, its first 10 characters as YYYY-MM-DD, the stripped text as
\* dd.mm.yyyy; datetime.min when the three fail.
FirstOfThree(text) ==
  IF FromIsoFormat(text).ok THEN FromIsoFormat(text).dt
  ELSE IF StrptimeYMD(Prefix10(text)).ok THEN StrptimeYMD(Prefix10(text)).dt
  ELSE IF StrptimeDMY(Strip(text)).ok THEN StrptimeDMY(Strip(text)).dt
  ELSE DatetimeMin

\* The text is a valid date YYYY-MM-DD followed by other text.
DatePrefixThenText(text) ==
  /\ Len(text) > 10
  /\ StrptimeYMD(Prefix10(text)).ok

\* The key of parse_date_sortkey is the first success of the three attempts,
\* and datetime.min for null, the empty text and a text the three fail on.
KeyIsFirstOfThree ==
  /\ IsStr(dateCall.date_str) =>
       dateCall.returned = FirstOfThree(dateCall.date_str.v)
  /\ ~Truthy(dateCall.date_str) => dateCall.returned = DatetimeMin

\* C20 as stated: the key is the first success of the three attempts in their
\* order, datetime.min when there is none, and every text that is a valid
\* date YYYY-MM-DD followed by other text has the key of that date.
C20_PrefixAlwaysGivesKey ==
  dateCall.fn = "parse_date_sortkey" =>
    /\ KeyIsFirstOfThree
    /\ (IsStr(dateCall.date_str) /\ DatePrefixThenText(dateCall.date_str.v))
         => dateCall.returned = StrptimeYMD(Prefix10(dateCall.date_str.v)).dt

\* C20 amended: the key is the first success of the three attempts in their
\* order, datetime.min when there is none, and a text that is a valid date
\* YYYY-MM-DD followed by other text has the key of that date when the whole
\* text is not ISO 8601.
C20_PrefixGivesKeyUnlessIso ==
  dateCall.fn = "parse_date_sortkey" =>
    /\ KeyIsFirstOfThree
    /\ (/\ IsStr(dateCall.date_str)
        /\ DatePrefixThenText(dateCall.date_str.v)
        /\ ~FromIsoFormat(dateCall.date_str.v).ok)
         => dateCall.returned = StrptimeYMD(Prefix10(dateCall.date_str.v)).dt

\* parse_date_sortkey has given a date followed by a time of day in words the
\* key of the date.
C20_Witness ==
  /\ dateCall.fn = "parse_date_sortkey"
  /\ dateCall.date_str = Str("2025-11-17 kl. 18")
  /\ dateCall.returned = DateTime(2025, 11, 17, 0, 0, 0, FALSE, 0)


\* ------------------------------------------------------------------------
\* Properties of the merge: raw items, the feed and the files
\* ------------------------------------------------------------------------

\* C14: the raw of every normalized item is the raw item of the input file it
\* was made from, field for field: the i-th normalized item of a source keeps
\* the i-th raw item of its file, and so does every item of the feed.
C14_RawPreserved ==
  /\ \A i \in 1..Len(kommune_items) :
       kommune_items[i].raw = kommuneFile.items[i]
  /\ \A i \in 1..Len(nf_items) : nf_items[i].raw = nfFile.items[i]
  /\ Returned =>
       \A n \in Range(Feed) :
         n.raw \in (IF n.source = "fauskenf" THEN Range(nfFile.items)
                    ELSE Range(kommuneFile.items))

\* A feed is returned whose items keep a kommune raw item with an empty
\* publishedText and an NF raw item with a date to parse.
C14_Witness ==
  /\ pc = "done"
  /\ Len(Feed) = 2
  /\ \E n \in Range(Feed) :
       /\ n.source = "fauske_kommune"
       /\ n.raw.publishedText = None /\ n.publishedText # None
  /\ \E n \in Range(Feed) :
       /\ n.source = "fauskenf"
       /\ n.raw.date = Str("17.11.2025") /\ n.published = Str("2025-11-17")

\* The kommune item and the NF item of the example.
ExampleKommune ==
  [EmptyRaw EXCEPT !.title = Str("X"), !.url = Str("https://s/a/b"),
                   !.published = Str("2025-11-13")]

ExampleNf ==
  [EmptyRaw EXCEPT !.id = Str("b-1"), !.date = Str("17.11.2025"),
                   !.title = Str("Y")]

ExampleFiles ==
  /\ kommuneFile = JsonFile(<<ExampleKommune>>)
  /\ nfFile = JsonFile(<<ExampleNf>>)

\* C15: with the kommune item X of 2025-11-13 and the NF item Y of 17.11.2025
\* as the only inputs, the run does not fail and its feed has two items, Y
\* before X, and Y has published 2025-11-17.
C15_ExampleFeed ==
  ExampleFiles =>
    /\ pc # "failed"
    /\ Returned =>
         /\ Len(Feed) = 2
         /\ Feed[1].title = Str("Y") /\ Feed[1].source = "fauskenf"
         /\ Feed[1].published = Str("2025-11-17")
         /\ Feed[2].title = Str("X") /\ Feed[2].source = "fauske_kommune"

\* The feed of the example is written.
C15_Witness ==
  /\ ExampleFiles
  /\ pc = "done"
  /\ Len(outputFile.items) = 2
  /\ outputFile.items[1].title = Str("Y")

\* q is p with its items in another order.
IsPermutation(p, q) ==
  /\ Len(p) = Len(q)
  /\ \E f \in [1..Len(p) -> 1..Len(p)] :
       /\ \A i, j \in 1..Len(p) : i # j => f[i] # f[j]
       /\ \A i \in 1..Len(p) : q[i] = p[f[i]]

\* C16: the items of the returned feed are the normalized items of the
\* kommune file followed by those of the NF file, in another order: one item
\* for each raw item of the two files, none left out, none twice, none added.
C16_FeedIsPermutation ==
  Returned =>
    /\ Len(Feed) = Len(kommuneFile.items) + Len(nfFile.items)
    /\ IsPermutation(
         [i \in 1..Len(kommuneFile.items) |->
            NormalizeKommune(kommuneFile.items[i])]
           \o [i \in 1..Len(nfFile.items) |-> NormalizeNf(nfFile.items[i])],
         Feed)

\* A feed is returned with two kommune items of the same id, the later one
\* first.
C16_Witness ==
  /\ pc = "done"
  /\ Len(kommuneFile.items) = 2
  /\ Len(Feed) = 2
  /\ Feed[1].id = Feed[2].id
  /\ Feed[1] = NormalizeKommune(kommuneFile.items[2])
  /\ Feed[1] # Feed[2]

\* What build_combined returns for the input files as they are.
FeedOfInputs ==
  SortDescending(load_kommune_items(kommuneFile).items
                   \o load_nf_items(nfFile).items)

\* C17: no step changes an input file; the output file changes in one step
\* of a run only, the write that ends it, which comes after both inputs are
\* loaded; and the items written are those build_combined makes of the
\* input files, whatever the output file held before.
C17_ReadThenWriteOnce ==
  /\ [][/\ kommuneFile' = kommuneFile
        /\ nfFile' = nfFile
        /\ outputFile' # outputFile =>
             /\ pc = "write" /\ pc' = "done"
             /\ kommune_items = load_kommune_items(kommuneFile).items
             /\ nf_items = load_nf_items(nfFile).items]_vars
  /\ [](pc = "done" => outputFile.items = FeedOfInputs)
  /\ [](pc \in {"load_kommune", "load_nf", "sort", "write", "failed"} =>
          outputFile = outputBefore)

\* A run has replaced an output file that held an item of an earlier run.
C17_Witness ==
  /\ pc = "done"
  /\ outputBefore = OldOutput
  /\ Len(outputFile.items) = 2
  /\ OldOutput.items[1] \notin Range(outputFile.items)

\* C18: an NF item of the returned feed whose raw item has no ingress and has
\* an articleBody has the articleBody as its ingress, and an NF item has an
\* empty or null ingress only when its raw item has neither.
C18_IngressFallsBackToArticle ==
  Returned =>
    \A n \in Range(Feed) :
      n.source = "fauskenf" =>
        /\ (~Truthy(n.raw.ingress) /\ Truthy(n.raw.articleBody)) =>
             n.ingress = n.raw.articleBody
        /\ ~Truthy(n.ingress) =>
             (~Truthy(n.raw.ingress) /\ ~Truthy(n.raw.articleBody))


\* ------------------------------------------------------------------------
\* Properties of the Naeringsforum scraper
\* ------------------------------------------------------------------------

\* A date dd.mm.yyyy written as YYYY-MM-DD.
DateAsIso(date) ==
  SubSeq(date, 7, 10) \o "-" \o SubSeq(date, 4, 5) \o "-" \o SubSeq(date, 1, 2)

\* C19: the id of every item extract_items_from_html has emitted is
\* "fauskenf-", the date of the item written as YYYY-MM-DD, "-" and the last
\* path segment of the url of the item, as in the documented id
\* fauskenf-2025-11-17-... of an item of 17.11.2025.
C19_IdHasIsoDate ==
  \A i \in 1..Len(nfScrape.items) :
    LET item == nfScrape.items[i]
    IN  item.id = Str("fauskenf-" \o DateAsIso(item.date.v) \o "-"
                        \o LastSegment(RStripSlash(item.url.v)))


\* C21: in a run of the scraper the article requests are one for each item
\* in the order of the list, never a second one for an item; a request that
\* fails leaves its item in the list with articleBody and articleHtml None
\* and the loop goes on to the next item; an item the loop has passed is not
\* touched again; and the file written has one item for each item extracted
\* from the list page, each of them requested.
C21_OneRequestPerItem ==
  /\ [](/\ Len(nfScrape.requested) <= Len(nfScrape.items)
        /\ nfScrape.pc = "articles" =>
             Len(nfScrape.requested) = nfScrape.next - 1
        /\ \A i \in 1..Len(nfScrape.requested) :
             nfScrape.requested[i] = nfScrape.items[i].url)
  /\ [][/\ Len(nfScrape'.warnings) > Len(nfScrape.warnings) =>
             /\ nfScrape'.pc = "articles"
             /\ nfScrape'.next = nfScrape.next + 1
             /\ Len(nfScrape'.items) = Len(nfScrape.items)
             /\ nfScrape'.items[nfScrape.next].articleBody = None
             /\ nfScrape'.items[nfScrape.next].articleHtml = None
        /\ nfScrape.pc = "articles" =>
             /\ Len(nfScrape'.requested) <= Len(nfScrape.requested) + 1
             /\ \A j \in 1..(nfScrape.next - 1) :
                  nfScrape'.items[j] = nfScrape.items[j]]_vars
  /\ [](nfScrape.pc = "done" =>
          /\ Len(nfFile.items) = Len(extract_items_from_html(nfScrape.anchors))
          /\ Len(nfScrape.requested) = Len(nfFile.items)
          /\ \A i \in 1..Len(nfFile.items) :
               /\ nfFile.items[i].id = nfScrape.items[i].id
               /\ nfFile.items[i].articleBody = nfScrape.items[i].articleBody)

\* The request of the first of two items failed, the second was requested
\* and answered, and both are written.
C21_Witness ==
  /\ nfScrape.pc = "done"
  /\ Len(nfScrape.items) = 2
  /\ nfScrape.warnings = <<nfScrape.items[1].url>>
  /\ Len(nfScrape.requested) = 2
  /\ nfScrape.items[1].articleBody = None
  /\ nfScrape.items[1].articleHtml = None
  /\ nfScrape.items[2].articleBody = Str("Hele artikkelen")
  /\ Len(nfFile.items) = 2


\* ------------------------------------------------------------------------
\* Properties of the culture programme
\* ------------------------------------------------------------------------

\* build_program has returned its events to main.
ProgramBuilt == kultur.pc \in {"write_out", "done"}

\* The showStart of every show of the answer is a str.
ShowStartsAreStrings ==
  \A i \in 1..Len(kultur.api.shows) : IsStr(kultur.api.shows[i].showStart)

\* The shows of the answer with the number, in the order of the answer, as
\* the entries an event keeps of them.
EntriesOf(kul) ==
  LET mine == SelectSeq(kultur.api.shows,
                        LAMBDA show : show.movieVersionId = kul)
  IN  [i \in 1..Len(mine) |-> ShowEntry(mine[i])]

\* C22: when every showStart of the answer is a str, build_program does not
\* raise, and the events it returns are one for each distinct non-empty
\* movieVersionId of the shows; the shows of an event are the shows of the
\* answer with its number, in their order; no event has the number of a show
\* without one; and the showStart of the first show of an event is not later
\* than that of the event behind it.
C22_OneEventPerNumber ==
  ShowStartsAreStrings =>
    /\ kultur.err # "TypeError"
    /\ ProgramBuilt =>
         LET events == kultur.program
             numbers == {kultur.api.shows[i].movieVersionId :
                           i \in {j \in 1..Len(kultur.api.shows) :
                                    Truthy(kultur.api.shows[j].movieVersionId)}}
         IN  /\ {events[i].id : i \in 1..Len(events)} = numbers
             /\ Len(events) = Cardinality(numbers)
             /\ \A i \in 1..Len(events) :
                  /\ Truthy(events[i].id)
                  /\ events[i].shows = EntriesOf(events[i].id)
             /\ \A i \in 1..(Len(events) - 1) :
                  ~StrLess(events[i + 1].shows[1].showStart.v,
                           events[i].shows[1].showStart.v)

\* The programme is written of an answer that lists KUL1 first: KUL2, whose
\* first show is earlier, comes first, and KUL1 keeps its two shows although
\* the second of them is the earliest of all.
C22_Witness ==
  /\ kultur.pc = "done"
  /\ ShowStartsAreStrings
  /\ Len(kultur.api.shows) = 3
  /\ kultur.api.shows[1].movieVersionId = Str("KUL1")
  /\ Len(kultur.outFile.content) = 2
  /\ kultur.outFile.content[1].id = Str("KUL2")
  /\ kultur.outFile.content[2].id = Str("KUL1")
  /\ Len(kultur.outFile.content[2].shows) = 2
  /\ StrLess(kultur.outFile.content[2].shows[2].showStart.v,
             kultur.outFile.content[1].shows[1].showStart.v)


\* ------------------------------------------------------------------------
\* Properties of the ids across the sources
\* ------------------------------------------------------------------------

\* C23: in the returned feed no item of the source fauske_kommune has the id
\* of an item of the source fauskenf.
C23_IdsApartAcrossSources ==
  Returned =>
    \A a, b \in Range(Feed) :
      (a.source = "fauske_kommune" /\ b.source = "fauskenf") => a.id # b.id

====
